---- MODULE Spec2Model ----
(***************************************************************************)
(* Model of allensdk.api.cache.Cache.cacher (src/allensdk/api/cache.py):   *)
(* the query-strategy dispatch around a fetch function, a target path and  *)
(* a hook bundle {pre, post, reader, writer}.                              *)
(*                                                                         *)
(* One invocation is a sequence of steps, one per statement of cacher that *)
(* touches a hook or the filesystem; its position is inv[p].pc.  The       *)
(* filesystem is shared by all invocations.                                *)
(***************************************************************************)
EXTENDS Integers, Sequences, FiniteSets, TLC

\* ---------------------------------------------------------------- bounds
\* data values a fetch function returns are 0..MaxData
MaxData == 1

Data == 0..MaxData

\* Python's None as a data value, and "local variable data is not bound"
None == 0 - 1
Unbound == 0 - 2

\* invocations; the sequential specification runs invocation 1 only
Procs == {1, 2}
SeqProcs == {1}

\* ------------------------------------------------------------ call inputs
\* path: the default of kwargs.pop('path', 'data.csv') and a path with a
\* parent directory
Paths == {"data.csv", "cache/data.csv"}

\* os.path.dirname; "" is the current directory
dirname(p) == IF p \in {"cache/data.csv", "cache/manifest.json"} THEN "cache" ELSE ""

\* query_strategy as given by the caller; "None" is None or omitted,
\* "other" is any string that is none of the recognized ones
Strategies == {"None", "pass_through", "create", "file", "lazy", "other"}

\* pre / post: "default" is the omitted keyword (lambda d: d), "fn" a
\* caller-supplied function, "None" an explicit post=None
PreHooks == {"default", "fn"}
PostHooks == {"default", "None", "fn"}
\* reader / writer: "None" is absent; otherwise the file format they handle
Readers == {"None", "csv", "json"}
Writers == {"None", "csv", "json"}

HookBundles == [pre : PreHooks, post : PostHooks, reader : Readers, writer : Writers]

\* the presets of lines 237-284
PresetNames == {"cache_csv_json", "cache_csv_dataframe", "nocache_dataframe",
                "nocache_json", "cache_json_dataframe", "cache_json", "cache_csv"}

\* the hooks of the keys a preset leaves out
NoHooks == [pre |-> "default", post |-> "default", reader |-> "None", writer |-> "None"]

\* lines 237-284: the hook bundle each preset returns, each hook under the
\* name of the function it calls; only cache_csv_dataframe and cache_csv
\* convert with pd.DataFrame before the writer calls x.to_csv
Preset(name) ==
    CASE name = "cache_csv_json" ->
            [NoHooks EXCEPT !.writer = "to_csv", !.reader = "from_csv", !.post = "to_dict"]
      [] name \in {"cache_csv_dataframe", "cache_csv"} ->
            [NoHooks EXCEPT !.pre = "DataFrame", !.writer = "to_csv", !.reader = "from_csv"]
      [] name = "nocache_dataframe" -> [NoHooks EXCEPT !.post = "DataFrame"]
      [] name = "cache_json_dataframe" ->
            [NoHooks EXCEPT !.writer = "ju.write", !.reader = "read_json"]
      [] name = "cache_json" -> [NoHooks EXCEPT !.writer = "ju.write", !.reader = "ju.read"]
      [] OTHER -> NoHooks

\* ------------------------------------------------------------- filesystem
NoFile == [fmt |-> "none", val |-> None]
Contents == {NoFile} \cup [fmt : {"csv", "json"}, val : Data]

\* a filesystem: the content of every path and the set of existing
\* directories; the current directory "" always exists and a file's parent
\* directory exists
FileSystems ==
    {f \in [files : [Paths -> Contents], dirs : SUBSET {"", "cache"}] :
        /\ "" \in f.dirs
        /\ \A q \in Paths : f.files[q] # NoFile => dirname(q) \in f.dirs}

\* the filesystems a first call may find: files left by earlier runs hold
\* the value 0 in either format
InitFileSystems == {f \in FileSystems : \A q \in Paths : f.files[q].val \in {None, 0}}

\* os.path.exists(path)
exists(f, p) == f.files[p] # NoFile

\* Manifest.safe_make_parent_dirs(path): the parent directory exists afterwards
safe_make_parent_dirs(f, p) == [f EXCEPT !.dirs = @ \cup {dirname(p)}]

\* ------------------------------------------------------------------ hooks
\* pre(data): identity when omitted
ApplyPre(pre, d) == IF pre = "default" THEN d ELSE (d + 1) % (MaxData + 1)

\* post(data): identity when omitted
ApplyPost(post, d) == IF post = "default" THEN d ELSE d + MaxData + 1

\* writer(path, data) fails when the parent directory is missing
WriterFails(f, p) == dirname(p) \notin f.dirs

\* writer(path, data): the file at path holds data in the writer's format
ApplyWriter(writer, f, p, d) == [f EXCEPT !.files[p] = [fmt |-> writer, val |-> d]]

\* reader(path) fails when the file is missing or is not in its format
ReaderFails(reader, f, p) == f.files[p].fmt # reader

\* what a failing reader(path) raises: IOError when the file is missing, a
\* parse error (a ValueError, such as JSONDecodeError) when the file is not
\* in the reader's format
ReaderError(reader, f, p) == IF exists(f, p) THEN "ParseError" ELSE "IOError"

\* reader(path): the data held by the file
ApplyReader(reader, f, p) == f.files[p].val

\* ------------------------------------------------------- cacher: decisions
\* a slip in lines 200-204: 'lazy' always fetches again
NormalizeLazyCreates(query_strategy, path_exists) ==
    IF query_strategy = "lazy" THEN "create"
    ELSE IF query_strategy = "None" THEN "pass_through" ELSE query_strategy

\* a slip in line 201: the existence test inverted
NormalizeInverted(query_strategy, path_exists) ==
    IF query_strategy = "lazy"
    THEN (IF path_exists THEN "create" ELSE "file")
    ELSE IF query_strategy = "None" THEN "pass_through" ELSE query_strategy

\* lines 200-207: 'lazy' becomes 'file' or 'create', None becomes 'pass_through'
Normalize(query_strategy, path_exists) ==
    IF query_strategy = "lazy"
    THEN (IF path_exists THEN "file" ELSE "create")
    ELSE IF query_strategy = "None" THEN "pass_through" ELSE query_strategy

\* a slip in line 212: 'file' is not excluded from the fetching branch
FetchesAlways(strategy) == TRUE

\* lines 209, 212: the branches that call fn
Fetches(strategy) == strategy = "pass_through" \/ strategy # "file"

\* a slip in line 212: only the literal 'create' reaches pre and writer
WritesOnlyCreate(strategy, writer) == strategy = "create" /\ writer # "None"

\* lines 212-213: the branch that runs pre and writer
Writes(strategy, writer) ==
    strategy # "pass_through" /\ strategy # "file" /\ writer # "None"

\* a slip in lines 213-214: the directory is made outside of "if writer"
MakesParentDirsNoWriter(strategy, writer) ==
    strategy # "pass_through" /\ strategy # "file"

\* lines 212-214: the branch that calls Manifest.safe_make_parent_dirs
MakesParentDirs(strategy, writer) ==
    strategy # "pass_through" /\ strategy # "file" /\ writer # "None"

\* a slip in line 220: the result of fn is kept without a writer too
RetainsAlways(strategy, writer) == TRUE

\* lines 210, 216, 220: the fetch result is bound to data except at line 220
Retains(strategy, writer) == strategy = "pass_through" \/ Writes(strategy, writer)

\* a slip in line 222: the reader is run on the fetching branches only
ReaderRunsNotFile(strategy, reader) == reader # "None" /\ strategy # "file"

\* line 222: if reader
ReaderRuns(strategy, reader) == reader # "None"

\* line 225: if post
PostRuns(post) == post # "None"

\* a slip in line 217: the result of pre is dropped
DataAfterPreDropped(pre, d) == d

\* line 217: data = pre(data)
DataAfterPre(pre, d) == ApplyPre(pre, d)

\* a slip in the statement order: the reader runs before the fetch branch
NextPcReadFirst(pc, strategy, h) ==
    LET afterRead == IF MakesParentDirs(strategy, h.writer) THEN "mkdirs"
                     ELSE IF Fetches(strategy) THEN "fetch" ELSE "ret" IN
    CASE pc = "normalize" ->
            IF ReaderRuns(strategy, h.reader) THEN "read" ELSE afterRead
      [] pc = "read" -> afterRead
      [] pc = "mkdirs" -> "fetch"
      [] pc = "fetch" -> IF Writes(strategy, h.writer) THEN "pre" ELSE "ret"
      [] pc = "pre" -> "write"
      [] pc = "write" -> "ret"
      [] OTHER -> "done"

\* a slip in the statement order: the directory is made after the fetch
NextPcFetchFirst(pc, strategy, h) ==
    LET afterBranch == IF ReaderRuns(strategy, h.reader) THEN "read" ELSE "ret" IN
    CASE pc = "normalize" -> IF Fetches(strategy) THEN "fetch" ELSE afterBranch
      [] pc = "fetch" -> IF MakesParentDirs(strategy, h.writer) THEN "mkdirs" ELSE afterBranch
      [] pc = "mkdirs" -> "pre"
      [] pc = "pre" -> "write"
      [] pc = "write" -> afterBranch
      [] pc = "read" -> "ret"
      [] OTHER -> "done"

\* the statement that follows position pc in cacher
NextPc(pc, strategy, h) ==
    LET afterBranch == IF ReaderRuns(strategy, h.reader) THEN "read" ELSE "ret" IN
    CASE pc = "normalize" ->
            IF MakesParentDirs(strategy, h.writer) THEN "mkdirs"
            ELSE IF Fetches(strategy) THEN "fetch" ELSE afterBranch
      [] pc = "mkdirs" -> "fetch"
      [] pc = "fetch" -> IF Writes(strategy, h.writer) THEN "pre" ELSE afterBranch
      [] pc = "pre" -> "write"
      [] pc = "write" -> afterBranch
      [] pc = "read" -> "ret"
      [] OTHER -> "done"

\* ---------------------------------------------------------- cacher: steps
Ev(op, arg) == [op |-> op, arg |-> arg]

\* a context that is not in a call
Idle ==
    [pc |-> "idle", query_strategy |-> "None", strategy |-> "", path |-> "data.csv",
     data |-> Unbound, result |-> None, err |-> "", log |-> << >>,
     fs0 |-> [files |-> [q \in Paths |-> NoFile], dirs |-> {""}]]

\* lines 193-198: the context of a call, before line 200
Enter(query_strategy, path, f) ==
    [Idle EXCEPT !.pc = "normalize", !.query_strategy = query_strategy,
                 !.path = path, !.fs0 = f]

Raise(c, e) == [c EXCEPT !.pc = "raised", !.err = e]

\* a slip in line 201: the existence test uses what was on disk when the
\* call was made, not what is there when the test runs
StepNormalizeStale(c, f, h) ==
    LET s == Normalize(c.query_strategy, exists(c.fs0, c.path)) IN
    [c |-> [c EXCEPT !.strategy = s,
                     !.pc = NextPc("normalize", s, h),
                     !.log = IF c.query_strategy = "lazy"
                             THEN Append(@, Ev("exists", None)) ELSE @],
     f |-> f]

\* lines 200-207
StepNormalize(c, f, h) ==
    LET s == Normalize(c.query_strategy, exists(f, c.path)) IN
    [c |-> [c EXCEPT !.strategy = s,
                     !.pc = NextPc("normalize", s, h),
                     !.log = IF c.query_strategy = "lazy"
                             THEN Append(@, Ev("exists", None)) ELSE @],
     f |-> f]

\* line 214
StepMkdirs(c, f, h) ==
    [c |-> [c EXCEPT !.pc = NextPc("mkdirs", c.strategy, h),
                     !.log = Append(@, Ev("mkdirs", None))],
     f |-> safe_make_parent_dirs(f, c.path)]

\* lines 210, 216, 220: fn(*args, **kwargs) returns v
StepFetch(c, f, h, v) ==
    [c |-> [c EXCEPT !.pc = NextPc("fetch", c.strategy, h),
                     !.data = IF Retains(c.strategy, h.writer) THEN v ELSE @,
                     !.log = Append(@, Ev("fetch", v))],
     f |-> f]

\* lines 210, 216, 220: fn(*args, **kwargs) raises; nothing catches it
StepFetchRaises(c, f, h) ==
    [c |-> Raise([c EXCEPT !.log = Append(@, Ev("fetch", None))], "FetchError"),
     f |-> f]

\* line 217: pre(data) raises; nothing catches it
StepPreRaises(c, f, h) ==
    [c |-> Raise([c EXCEPT !.log = Append(@, Ev("pre", c.data))], "PreError"),
     f |-> f]

\* line 217
StepPre(c, f, h) ==
    [c |-> [c EXCEPT !.pc = NextPc("pre", c.strategy, h),
                     !.data = DataAfterPre(h.pre, c.data),
                     !.log = Append(@, Ev("pre", c.data))],
     f |-> f]

\* line 218
StepWrite(c, f, h) ==
    LET logged == [c EXCEPT !.log = Append(@, Ev("writer", c.data))] IN
    IF WriterFails(f, c.path)
    THEN [c |-> Raise(logged, "IOError"), f |-> f]
    ELSE [c |-> [logged EXCEPT !.pc = NextPc("write", c.strategy, h)],
          f |-> ApplyWriter(h.writer, f, c.path, c.data)]

\* lines 222-223
StepRead(c, f, h) ==
    LET logged == [c EXCEPT !.log = Append(@, Ev("reader", None))] IN
    IF ReaderFails(h.reader, f, c.path)
    THEN [c |-> Raise(logged, ReaderError(h.reader, f, c.path)), f |-> f]
    ELSE [c |-> [logged EXCEPT !.pc = NextPc("read", c.strategy, h),
                               !.data = ApplyReader(h.reader, f, c.path)],
          f |-> f]

\* lines 225-235
StepReturn(c, f, h) ==
    IF PostRuns(h.post)
    THEN IF c.data = Unbound
         THEN [c |-> Raise(c, "UnboundLocalError"), f |-> f]
         ELSE [c |-> [c EXCEPT !.pc = "done",
                               !.result = ApplyPost(h.post, c.data),
                               !.log = Append(@, Ev("post", c.data))],
               f |-> f]
    ELSE [c |-> [c EXCEPT !.pc = "done",
                          !.result = IF c.data = Unbound THEN None ELSE c.data],
          f |-> f]

\* one step of an invocation; v is what fn returns if this step calls it
Step(c, f, h, v) ==
    CASE c.pc = "normalize" -> StepNormalize(c, f, h)
      [] c.pc = "mkdirs" -> StepMkdirs(c, f, h)
      [] c.pc = "fetch" -> StepFetch(c, f, h, v)
      [] c.pc = "pre" -> StepPre(c, f, h)
      [] c.pc = "write" -> StepWrite(c, f, h)
      [] c.pc = "read" -> StepRead(c, f, h)
      [] c.pc = "ret" -> StepReturn(c, f, h)
      [] OTHER -> [c |-> c, f |-> f]

Returned(c) == c.pc \in {"done", "raised"}

\* a whole call of cacher, run alone: Step until it returns or raises
RECURSIVE RunFrom(_, _, _)
RunFrom(cf, h, v) ==
    IF Returned(cf.c) \/ cf.c.pc = "idle" THEN cf ELSE RunFrom(Step(cf.c, cf.f, h, v), h, v)

cacher(query_strategy, path, f, h, v) ==
    RunFrom([c |-> Enter(query_strategy, path, f), f |-> f], h, v)

\* ------------------------------------------------------------------ state
VARIABLES
    hooks,   \* the hook bundle the caller passes with every call
    fs,      \* the filesystem
    inv,     \* inv[p]: the context of invocation p
    prev,    \* the call that returned last: what was asked and what came back
    obj,     \* the Cache object: its construction and its last path lookup
    disk,    \* the manifest files and directories on disk
    wr,      \* the Cache.wrap call in progress
    fwd,     \* the calls made with caller-supplied arguments, per caller
    pst      \* the call made with the hooks of a preset

vars == <<hooks, fs, inv, prev, obj, disk, wr, fwd, pst>>

\* what Cache.cacher does not touch
facadeVars == <<obj, disk, wr, fwd, pst>>

NoPrev == [valid |-> FALSE, query_strategy |-> "None", path |-> "data.csv",
           result |-> None, err |-> "", fetched |-> FALSE]

Summary(c) == [valid |-> TRUE, query_strategy |-> c.query_strategy, path |-> c.path,
               result |-> c.result, err |-> c.err,
               fetched |-> \E i \in DOMAIN c.log : c.log[i].op = "fetch"]

\* the result of Cache.get_cache_path before any lookup
NoLookup ==
    [valid |-> FALSE, file_name |-> "None", key |-> "", arg |-> "", cache0 |-> FALSE,
     manifest0 |-> "unset", absent |-> TRUE, path |-> "", err |-> "", consulted |-> FALSE]

\* before any Cache object is constructed
NoObj ==
    [pc |-> "none", cls |-> "Cache", file_name |-> "None", cache |-> FALSE,
     manifest |-> "unset", log |-> << >>, err |-> "",
     disk0 |-> [files |-> {}, dirs |-> {""}], got |-> NoLookup]

\* before any call of Cache.wrap
NoWrap ==
    [pc |-> "none", cache |-> FALSE, save_as_json |-> TRUE, return_dataframe |-> FALSE,
     path |-> "data.csv", data |-> Unbound, result |-> None, err |-> "", log |-> << >>,
     fs0 |-> [files |-> [q \in Paths |-> NoFile], dirs |-> {""}]]

\* keyword arguments: a function from the keys passed to their values
EmptyKw == [k \in {} |-> ""]

\* what fn has received when it was not called
NotCalled == [called |-> FALSE, args |-> << >>, kwargs |-> EmptyKw]

\* a caller that has made no call with arguments of its own
NoCall ==
    [via |-> "cacher", args |-> << >>, kwargs |-> EmptyKw,
     h |-> [pre |-> "default", post |-> "default", reader |-> "None", writer |-> "None"],
     rest |-> EmptyKw, received |-> NotCalled, alone |-> TRUE, c |-> Idle]

\* before any call with caller-supplied arguments
NoFwd == [p \in Procs |-> NoCall]

\* a tabular value: its content, held as a list of JSON records or as a
\* DataFrame; NoTable where no value is bound
Shapes == {"records", "frame"}
Tables == [shape : Shapes, val : Data]
NoTable == [shape |-> "none", val |-> None]

\* before any call with the hooks of a preset
NoPreset ==
    [pc |-> "idle", name |-> "nocache_json",
     h |-> [pre |-> "default", post |-> "default", reader |-> "None", writer |-> "None"],
     strategy |-> "", path |-> "data.csv", fetched |-> NoTable, data |-> NoTable,
     written |-> NoTable, readback |-> NoTable, result |-> NoTable, err |-> "",
     log |-> << >>, fs0 |-> [files |-> [q \in Paths |-> NoFile], dirs |-> {""}]]

\* no Cache object, no wrap call and no decorated call
NoFacade ==
    /\ obj = NoObj
    /\ disk = [files |-> {}, dirs |-> {""}]
    /\ wr = NoWrap
    /\ fwd = NoFwd
    /\ pst = NoPreset

Init ==
    /\ hooks \in HookBundles
    /\ fs \in InitFileSystems
    /\ inv = [p \in Procs |-> Idle]
    /\ prev = NoPrev
    /\ NoFacade

\* the caller invokes Cache.cacher(fn, path=..., query_strategy=..., **hooks)
Call(p) ==
    /\ inv[p].pc \in {"idle", "done", "raised"}
    /\ \E qs \in Strategies, path \in Paths :
          inv' = [inv EXCEPT ![p] = Enter(qs, path, fs)]
    /\ prev' = IF Returned(inv[p]) THEN Summary(inv[p]) ELSE prev
    /\ UNCHANGED <<hooks, fs, facadeVars>>

\* invocation p takes the step whose outcome is r
Take(p, r) ==
    /\ inv' = [inv EXCEPT ![p] = r.c]
    /\ fs' = r.f
    /\ UNCHANGED <<hooks, prev, facadeVars>>

\* lines 200-207
DoNormalize(p) ==
    /\ inv[p].pc = "normalize"
    /\ Take(p, StepNormalize(inv[p], fs, hooks))

\* line 214
DoMkdirs(p) ==
    /\ inv[p].pc = "mkdirs"
    /\ Take(p, StepMkdirs(inv[p], fs, hooks))

\* lines 210, 216, 220: fn returns some v
DoFetch(p) ==
    /\ inv[p].pc = "fetch"
    /\ \E v \in Data : Take(p, StepFetch(inv[p], fs, hooks, v))

\* line 217
DoPre(p) ==
    /\ inv[p].pc = "pre"
    /\ Take(p, StepPre(inv[p], fs, hooks))

\* line 218
DoWrite(p) ==
    /\ inv[p].pc = "write"
    /\ Take(p, StepWrite(inv[p], fs, hooks))

\* lines 222-223
DoRead(p) ==
    /\ inv[p].pc = "read"
    /\ Take(p, StepRead(inv[p], fs, hooks))

\* lines 225-235
DoReturn(p) ==
    /\ inv[p].pc = "ret"
    /\ Take(p, StepReturn(inv[p], fs, hooks))

Next ==
    \E p \in SeqProcs :
        \/ Call(p)
        \/ DoNormalize(p)
        \/ DoMkdirs(p)
        \/ DoFetch(p)
        \/ DoPre(p)
        \/ DoWrite(p)
        \/ DoRead(p)
        \/ DoReturn(p)

Spec == Init /\ [][Next]_vars

\* ------------------------------------------- calls whose fn or pre may fail
\* lines 210, 216, 220: fn raises
DoFetchRaises(p) ==
    /\ inv[p].pc = "fetch"
    /\ Take(p, StepFetchRaises(inv[p], fs, hooks))

\* line 217: a caller-supplied pre raises
DoPreRaises(p) ==
    /\ inv[p].pc = "pre"
    /\ hooks.pre = "fn"
    /\ Take(p, StepPreRaises(inv[p], fs, hooks))

NextFail ==
    \E p \in SeqProcs :
        \/ Call(p)
        \/ DoNormalize(p)
        \/ DoMkdirs(p)
        \/ DoFetch(p)
        \/ DoFetchRaises(p)
        \/ DoPre(p)
        \/ DoPreRaises(p)
        \/ DoWrite(p)
        \/ DoRead(p)
        \/ DoReturn(p)

\* the calls whose fetch or pre may fail keep the default post: post runs
\* after every step that can fail here
InitFail ==
    /\ Init
    /\ hooks.post = "default"

SpecFail == InitFail /\ [][NextFail]_vars

\* ------------------------------- two callers populate the cache at once
\* every call is made with query_strategy='lazy', a writer and a reader
InitConc ==
    /\ hooks \in {h \in HookBundles : h.writer # "None" /\ h.reader # "None"}
    /\ fs \in InitFileSystems
    /\ inv = [p \in Procs |-> Idle]
    /\ prev = NoPrev
    /\ NoFacade

\* a caller invokes Cache.cacher(fn, path=..., query_strategy='lazy', **hooks)
CallLazy(p) ==
    /\ inv[p].pc \in {"idle", "done", "raised"}
    /\ \E path \in Paths : inv' = [inv EXCEPT ![p] = Enter("lazy", path, fs)]
    /\ UNCHANGED <<hooks, fs, prev, facadeVars>>

\* cacher takes no lock: the steps of the two invocations interleave freely
NextConc ==
    \E p \in Procs :
        \/ CallLazy(p)
        \/ DoNormalize(p)
        \/ DoMkdirs(p)
        \/ DoFetch(p)
        \/ DoPre(p)
        \/ DoWrite(p)
        \/ DoRead(p)
        \/ DoReturn(p)

SpecConc == InitConc /\ [][NextConc]_vars

\* ------------------------------------------ the Cache object and manifest
\* Cache itself, whose build_manifest raises, and a subclass that overrides it
Classes == {"Cache", "Subclass"}

\* the manifest argument of Cache.__init__; "None" is None or omitted
ManifestArgs == {"None", "manifest.json", "cache/manifest.json"}

\* manifest files and directories; "" is the current directory
Disks ==
    {d \in [files : SUBSET (ManifestArgs \ {"None"}), dirs : SUBSET {"", "cache"}] :
        /\ "" \in d.dirs
        /\ \A n \in d.files : dirname(n) \in d.dirs}

\* the keys of the path specifications in a manifest file, and format arguments
ManifestKeys == {"cells"}
LookupKeys == {"cells", "bogus"}
FormatArgs == {"experiment1", "experiment2"}

\* the file_name argument of get_cache_path; "None" is None
FileNames == {"None", "", "my.csv"}

\* Manifest.safe_mkdir(dirname): the directory exists afterwards
safe_mkdir(d, dir) == [d EXCEPT !.dirs = @ \cup {dir}]

\* Manifest.get_path(key, *args): the template of key filled with args
\* ("{0}/cells.csv" for "cells"), a lookup failure for an unknown key
manifest_get_path(key, arg) ==
    IF key \in ManifestKeys
    THEN [absent |-> FALSE, err |-> "",
          path |-> IF arg = "experiment1" THEN "experiment1/cells.csv"
                   ELSE "experiment2/cells.csv"]
    ELSE [absent |-> TRUE, err |-> "LookupFailure", path |-> ""]

\* a slip in lines 46-47: the explicit file name is returned without
\* looking at the cache flag
get_cache_path_name_first(cache, manifest, file_name, key, arg) ==
    IF file_name \notin {"None", ""}
    THEN [absent |-> FALSE, path |-> file_name, err |-> "", consulted |-> FALSE]
    ELSE IF cache /\ manifest = "loaded"
    THEN manifest_get_path(key, arg) @@ [consulted |-> TRUE]
    ELSE [absent |-> TRUE, path |-> "", err |-> "", consulted |-> FALSE]

\* lines 46-52: Cache.get_cache_path
get_cache_path(cache, manifest, file_name, key, arg) ==
    IF cache /\ file_name \notin {"None", ""}
    THEN [absent |-> FALSE, path |-> file_name, err |-> "", consulted |-> FALSE]
    ELSE IF cache /\ manifest = "loaded"
    THEN manifest_get_path(key, arg) @@ [consulted |-> TRUE]
    ELSE [absent |-> TRUE, path |-> "", err |-> "", consulted |-> FALSE]

\* a slip in line 67: the default manifest is built over an existing file
BuildsManifestAlways(d, file_name) == TRUE

\* line 67: if not os.path.exists(file_name)
BuildsManifest(d, file_name) == file_name \notin d.files

\* a slip in lines 89-90: the base class builder does nothing
BuilderRaisesNever(cls) == FALSE

\* lines 81-90: Cache.build_manifest raises unless a subclass overrides it
BuilderRaises(cls) == cls = "Cache"

\* lines 26-30: Cache.__init__ sets the flag and calls load_manifest
New(cls, manifest, cache, d) ==
    [NoObj EXCEPT !.pc = "load_manifest", !.cls = cls, !.file_name = manifest,
                  !.cache = cache, !.disk0 = d]

\* lines 66-67, 70-71, 78-79: which statement load_manifest runs first
StepLoadManifest(o, d) ==
    IF o.file_name = "None"
    THEN [o |-> [o EXCEPT !.pc = "constructed", !.manifest = "None"], d |-> d]
    ELSE IF BuildsManifest(d, o.file_name)
    THEN [o |-> [o EXCEPT !.pc = IF dirname(o.file_name) # "" THEN "safe_mkdir"
                                 ELSE "build_manifest"],
          d |-> d]
    ELSE [o |-> [o EXCEPT !.pc = "read"], d |-> d]

\* line 72
StepSafeMkdir(o, d) ==
    [o |-> [o EXCEPT !.pc = "build_manifest", !.log = Append(@, "safe_mkdir")],
     d |-> safe_mkdir(d, dirname(o.file_name))]

\* line 74: self.build_manifest(file_name); an overriding builder writes
\* the default manifest to file_name
StepBuildManifest(o, d) ==
    LET logged == [o EXCEPT !.log = Append(@, "build_manifest")] IN
    IF BuilderRaises(o.cls)
    THEN [o |-> [logged EXCEPT !.pc = "raised", !.err = "Exception"], d |-> d]
    ELSE [o |-> [logged EXCEPT !.pc = "read"],
          d |-> [d EXCEPT !.files = @ \cup {o.file_name}]]

\* lines 76-77: ju.read(file_name) and Manifest(...)
StepReadManifest(o, d) ==
    LET logged == [o EXCEPT !.log = Append(@, "read")] IN
    IF o.file_name \notin d.files
    THEN [o |-> [logged EXCEPT !.pc = "raised", !.err = "IOError"], d |-> d]
    ELSE [o |-> [logged EXCEPT !.pc = "constructed", !.manifest = "loaded"], d |-> d]

InitManifest ==
    /\ hooks = [pre |-> "default", post |-> "default", reader |-> "None", writer |-> "None"]
    /\ fs = [files |-> [q \in Paths |-> NoFile], dirs |-> {""}]
    /\ inv = [p \in Procs |-> Idle]
    /\ prev = NoPrev
    /\ obj = NoObj
    /\ disk \in Disks
    /\ wr = NoWrap
    /\ fwd = NoFwd
    /\ pst = NoPreset

\* Cache(manifest=..., cache=...) or the same of a subclass
Construct ==
    /\ obj.pc \in {"none", "constructed", "raised"}
    /\ \E cls \in Classes, manifest \in ManifestArgs, cache \in BOOLEAN :
          obj' = New(cls, manifest, cache, disk)
    /\ UNCHANGED <<hooks, fs, inv, prev, disk, wr, fwd, pst>>

\* the constructor takes the step whose outcome is r
TakeLoad(r) ==
    /\ obj' = r.o
    /\ disk' = r.d
    /\ UNCHANGED <<hooks, fs, inv, prev, wr, fwd, pst>>

\* lines 66-67, 78-79
DoLoadManifest ==
    /\ obj.pc = "load_manifest"
    /\ TakeLoad(StepLoadManifest(obj, disk))

\* line 72
DoSafeMkdir ==
    /\ obj.pc = "safe_mkdir"
    /\ TakeLoad(StepSafeMkdir(obj, disk))

\* line 74
DoBuildManifest ==
    /\ obj.pc = "build_manifest"
    /\ TakeLoad(StepBuildManifest(obj, disk))

\* lines 76-77
DoReadManifest ==
    /\ obj.pc = "read"
    /\ TakeLoad(StepReadManifest(obj, disk))

\* lines 32-52: self.get_cache_path(file_name, manifest_key, *args)
GetCachePath ==
    /\ obj.pc = "constructed"
    /\ \E file_name \in FileNames, key \in LookupKeys, arg \in FormatArgs :
          obj' = [obj EXCEPT !.got =
                    [valid |-> TRUE, file_name |-> file_name, key |-> key, arg |-> arg,
                     cache0 |-> obj.cache, manifest0 |-> obj.manifest]
                    @@ get_cache_path(obj.cache, obj.manifest, file_name, key, arg)]
    /\ UNCHANGED <<hooks, fs, inv, prev, disk, wr, fwd, pst>>

NextManifest ==
    \/ Construct
    \/ DoLoadManifest
    \/ DoSafeMkdir
    \/ DoBuildManifest
    \/ DoReadManifest
    \/ GetCachePath

SpecManifest == InitManifest /\ [][NextManifest]_vars

\* ------------------------------------------------ the deprecated Cache.wrap
\* line 323: the context of a call; fn is called only if cache is True
EnterWrap(cache, save_as_json, return_dataframe, path, f) ==
    [NoWrap EXCEPT !.pc = IF cache THEN "fetch" ELSE "read", !.cache = cache,
                   !.save_as_json = save_as_json, !.return_dataframe = return_dataframe,
                   !.path = path, !.fs0 = f]

\* line 324: json_data = fn(**kwargs) returns v
StepWrapFetch(w, f, v) ==
    [w |-> [w EXCEPT !.pc = "write", !.data = v, !.log = Append(@, Ev("fetch", v))],
     f |-> f]

\* lines 326-335: ju.write(path, json_data) or df.to_csv(path); neither
\* makes the parent directory
StepWrapWrite(w, f) ==
    LET fmt == IF w.save_as_json THEN "json" ELSE "csv"
        logged == [w EXCEPT !.log = Append(@, Ev("write", w.data))] IN
    IF WriterFails(f, w.path)
    THEN [w |-> [logged EXCEPT !.pc = "raised", !.err = "IOError"], f |-> f]
    ELSE [w |-> [logged EXCEPT !.pc = "read"],
          f |-> ApplyWriter(fmt, f, w.path, w.data)]

\* lines 338-352: read the file back, or reject the option combination
StepWrapRead(w, f) ==
    IF w.save_as_json \/ w.return_dataframe
    THEN LET fmt == IF w.save_as_json THEN "json" ELSE "csv"
             logged == [w EXCEPT !.log = Append(@, Ev("read", None))] IN
         IF ReaderFails(fmt, f, w.path)
         THEN [w |-> [logged EXCEPT !.pc = "raised",
                                    !.err = ReaderError(fmt, f, w.path)],
               f |-> f]
         ELSE [w |-> [logged EXCEPT !.pc = "done",
                                    !.result = ApplyReader(fmt, f, w.path)],
               f |-> f]
    ELSE [w |-> [w EXCEPT !.pc = "raised", !.err = "ValueError"], f |-> f]

InitWrap ==
    /\ hooks = [pre |-> "default", post |-> "default", reader |-> "None", writer |-> "None"]
    /\ fs \in InitFileSystems
    /\ inv = [p \in Procs |-> Idle]
    /\ prev = NoPrev
    /\ obj = NoObj
    /\ disk = [files |-> {}, dirs |-> {""}]
    /\ wr = NoWrap
    /\ fwd = NoFwd
    /\ pst = NoPreset

\* self.wrap(fn, path, cache, save_as_json=..., return_dataframe=...)
WrapCall ==
    /\ wr.pc \in {"none", "done", "raised"}
    /\ \E cache \in BOOLEAN, save_as_json \in BOOLEAN, return_dataframe \in BOOLEAN,
          path \in Paths :
          wr' = EnterWrap(cache, save_as_json, return_dataframe, path, fs)
    /\ UNCHANGED <<hooks, fs, inv, prev, obj, disk, fwd, pst>>

\* wrap takes the step whose outcome is r
TakeWrap(r) ==
    /\ wr' = r.w
    /\ fs' = r.f
    /\ UNCHANGED <<hooks, inv, prev, obj, disk, fwd, pst>>

\* line 324
DoWrapFetch ==
    /\ wr.pc = "fetch"
    /\ \E v \in Data : TakeWrap(StepWrapFetch(wr, fs, v))

\* lines 326-335
DoWrapWrite ==
    /\ wr.pc = "write"
    /\ TakeWrap(StepWrapWrite(wr, fs))

\* lines 338-352
DoWrapRead ==
    /\ wr.pc = "read"
    /\ TakeWrap(StepWrapRead(wr, fs))

NextWrap ==
    \/ WrapCall
    \/ DoWrapFetch
    \/ DoWrapWrite
    \/ DoWrapRead

SpecWrap == InitWrap /\ [][NextWrap]_vars

\* ------------------------------------------------------ argument forwarding
\* lines 193-198: the keys cacher pops from kwargs
RecognizedKeys == {"path", "query_strategy", "pre", "post", "reader", "writer"}

\* a keyword argument of the fetch function
ExtraKeys == {"criteria"}

Absent == "<absent>"

\* what a caller passes: positional arguments, and for every key either a
\* value or nothing
ArgLists == {<< >>, <<"a", "b">>}
KwargRows ==
    [path : {"cache/data.csv", Absent},
     query_strategy : {"create", "file", "lazy", Absent},
     pre : {"fn", Absent}, post : {"fn", Absent}, reader : {"csv", Absent},
     writer : {"csv", Absent}, criteria : {"a", Absent}]
Kwargs ==
    {[k \in {x \in RecognizedKeys \cup ExtraKeys : row[x] # Absent} |-> row[k]] :
        row \in KwargRows}

\* kwargs.pop(k, default): the value
PopValue(kw, k, default) == IF k \in DOMAIN kw THEN kw[k] ELSE default

\* kwargs without the keys in ks
Without(kw, ks) == [k \in DOMAIN kw \ ks |-> kw[k]]

\* a slip in line 193: path is read with get, and stays in kwargs
PopOptionsKeepsPath(kw) ==
    [path |-> PopValue(kw, "path", "data.csv"),
     query_strategy |-> PopValue(kw, "query_strategy", "None"),
     h |-> [pre |-> PopValue(kw, "pre", "default"),
            post |-> PopValue(kw, "post", "default"),
            reader |-> PopValue(kw, "reader", "None"),
            writer |-> PopValue(kw, "writer", "None")],
     kwargs |-> Without(kw, RecognizedKeys \ {"path"})]

\* lines 193-198: the six pops, their defaults, and what is left in kwargs
PopOptions(kw) ==
    [path |-> PopValue(kw, "path", "data.csv"),
     query_strategy |-> PopValue(kw, "query_strategy", "None"),
     h |-> [pre |-> PopValue(kw, "pre", "default"),
            post |-> PopValue(kw, "post", "default"),
            reader |-> PopValue(kw, "reader", "None"),
            writer |-> PopValue(kw, "writer", "None")],
     kwargs |-> Without(kw, RecognizedKeys)]

\* the fetch function of these calls: it returns the number of arguments it
\* is called with
fetch_fn(args, kwargs) == (Len(args) + Cardinality(DOMAIN kwargs)) % (MaxData + 1)

\* lines 161-235: a whole call Cache.cacher(fetch_fn, *args, **kwargs) run alone
\* on filesystem f; received is what fetch_fn was called with (lines 210,
\* 216, 220)
Cache_cacher(args, kwargs, f) ==
    LET o == PopOptions(kwargs)
        r == cacher(o.query_strategy, o.path, f, o.h, fetch_fn(args, o.kwargs)) IN
    [c |-> r.c, f |-> r.f,
     received |-> IF \E i \in DOMAIN r.c.log : r.c.log[i].op = "fetch"
                  THEN [called |-> TRUE, args |-> args, kwargs |-> o.kwargs]
                  ELSE NotCalled]

\* lines 193-198: Cache.cacher(fetch_fn, *args, **kwargs) has popped its
\* options and stands before line 200
EnterCacher(args, kwargs, f) ==
    LET o == PopOptions(kwargs) IN
    [NoCall EXCEPT !.args = args, !.kwargs = kwargs, !.h = o.h, !.rest = o.kwargs,
                   !.c = Enter(o.query_strategy, o.path, f)]

\* lines 389-397: w(*args, **kwargs) of cacheable(fetch_fn) calls
\* Cache.cacher(fetch_fn, *args, **kwargs) and returns its result
cacheable(args, kwargs, f) == [EnterCacher(args, kwargs, f) EXCEPT !.via = "cacheable"]

\* the filesystems these calls start from: the reader they pass reads CSV,
\* and a directory is there when a file in it is
ForwardFileSystems ==
    {f \in InitFileSystems :
        /\ \A q \in Paths : f.files[q].fmt # "json"
        /\ "cache" \in f.dirs <=> exists(f, "cache/data.csv")}

\* what the second caller passes: it populates or reads the cache the first
\* caller uses
ConcurrentKwargs ==
    {kw \in Kwargs :
        /\ DOMAIN kw = {"query_strategy", "reader", "writer", "criteria"}
        /\ kw["query_strategy"] \in {"create", "lazy"}}

\* what caller p passes
CallerArgs(p) == IF p \in SeqProcs THEN ArgLists ELSE {<< >>}
CallerKwargs(p) == IF p \in SeqProcs THEN Kwargs ELSE ConcurrentKwargs

InitForward ==
    /\ hooks = NoHooks
    /\ fs \in ForwardFileSystems
    /\ inv = [p \in Procs |-> Idle]
    /\ prev = NoPrev
    /\ NoFacade

\* lines 161-198: caller p calls Cache.cacher(fetch_fn, *args, **kwargs)
CallCacher(p) ==
    /\ fwd[p].c.pc = "idle"
    /\ \E args \in CallerArgs(p), kwargs \in CallerKwargs(p) :
          fwd' = [fwd EXCEPT ![p] = EnterCacher(args, kwargs, fs)]
    /\ UNCHANGED <<hooks, fs, inv, prev, obj, disk, wr, pst>>

\* lines 389-397: caller p calls the decorated function
CallCacheable(p) ==
    /\ fwd[p].c.pc = "idle"
    /\ \E args \in CallerArgs(p), kwargs \in CallerKwargs(p) :
          fwd' = [fwd EXCEPT ![p] = cacheable(args, kwargs, fs)]
    /\ UNCHANGED <<hooks, fs, inv, prev, obj, disk, wr, pst>>

\* the call of caller p takes the step whose outcome is r, and fn has
\* received rcv so far; a call is no longer alone once another call has
\* changed the filesystem since it began
TakeForward(p, r, rcv) ==
    /\ fwd' = [q \in Procs |->
                  IF q = p THEN [fwd[p] EXCEPT !.c = r.c, !.received = rcv]
                  ELSE IF fwd[q].c.pc # "idle" /\ r.f # fs
                       THEN [fwd[q] EXCEPT !.alone = FALSE]
                       ELSE fwd[q]]
    /\ fs' = r.f
    /\ UNCHANGED <<hooks, inv, prev, obj, disk, wr, pst>>

\* lines 200-207
ForwardNormalize(p) ==
    /\ fwd[p].c.pc = "normalize"
    /\ TakeForward(p, StepNormalize(fwd[p].c, fs, fwd[p].h), fwd[p].received)

\* line 214
ForwardMkdirs(p) ==
    /\ fwd[p].c.pc = "mkdirs"
    /\ TakeForward(p, StepMkdirs(fwd[p].c, fs, fwd[p].h), fwd[p].received)

\* lines 210, 216, 220: fn(*args, **kwargs) with what the pops left in kwargs
ForwardFetch(p) ==
    /\ fwd[p].c.pc = "fetch"
    /\ TakeForward(p, StepFetch(fwd[p].c, fs, fwd[p].h,
                                fetch_fn(fwd[p].args, fwd[p].rest)),
                   [called |-> TRUE, args |-> fwd[p].args, kwargs |-> fwd[p].rest])

\* line 217
ForwardPre(p) ==
    /\ fwd[p].c.pc = "pre"
    /\ TakeForward(p, StepPre(fwd[p].c, fs, fwd[p].h), fwd[p].received)

\* line 218
ForwardWrite(p) ==
    /\ fwd[p].c.pc = "write"
    /\ TakeForward(p, StepWrite(fwd[p].c, fs, fwd[p].h), fwd[p].received)

\* lines 222-223
ForwardRead(p) ==
    /\ fwd[p].c.pc = "read"
    /\ TakeForward(p, StepRead(fwd[p].c, fs, fwd[p].h), fwd[p].received)

\* lines 225-235
ForwardReturn(p) ==
    /\ fwd[p].c.pc = "ret"
    /\ TakeForward(p, StepReturn(fwd[p].c, fs, fwd[p].h), fwd[p].received)

\* cacher takes no lock: the steps of the two callers interleave freely
NextForward ==
    \E p \in Procs :
        \/ CallCacher(p)
        \/ CallCacheable(p)
        \/ ForwardNormalize(p)
        \/ ForwardMkdirs(p)
        \/ ForwardFetch(p)
        \/ ForwardPre(p)
        \/ ForwardWrite(p)
        \/ ForwardRead(p)
        \/ ForwardReturn(p)

SpecForward == InitForward /\ [][NextForward]_vars

\* --------------------------------------------------- the presets in use
\* lines 248, 281: pd.DataFrame(data) makes a DataFrame of records or of a
\* DataFrame; the default pre is the identity
PresetPre(pre, x) == IF pre = "DataFrame" THEN [x EXCEPT !.shape = "frame"] ELSE x

\* lines 240, 249, 282: x.to_csv is a method of a DataFrame only
PresetWriterRejects(writer, x) == writer = "to_csv" /\ x.shape # "frame"

\* the format of the file a writer leaves and a reader expects
PresetFormat(hook) == IF hook \in {"to_csv", "from_csv"} THEN "csv" ELSE "json"

\* lines 241, 250, 268, 275, 283: from_csv and read_json return a
\* DataFrame, ju.read the JSON records
PresetReaderShape(reader) == IF reader = "ju.read" THEN "records" ELSE "frame"

\* line 242: x.to_dict('records') is a method of a DataFrame only
PresetPostRejects(post, x) == post = "to_dict" /\ x.shape # "frame"

\* lines 242, 256: to_dict('records') gives records, pd.DataFrame a DataFrame
PresetPost(post, x) ==
    CASE post = "to_dict" -> [x EXCEPT !.shape = "records"]
      [] post = "DataFrame" -> [x EXCEPT !.shape = "frame"]
      [] OTHER -> x

\* the strategies the preset calls are made with
PresetStrategies == {"None", "create", "lazy"}

InitPreset ==
    /\ hooks = NoHooks
    /\ fs \in InitFileSystems
    /\ inv = [p \in Procs |-> Idle]
    /\ prev = NoPrev
    /\ NoFacade

\* the call with a preset's hooks goes to position pc
PresetGoes(pc, op) ==
    [pst EXCEPT !.pc = NextPc(pc, pst.strategy, pst.h), !.log = Append(@, op)]

PresetRaises(e, op) == [pst EXCEPT !.pc = "raised", !.err = e, !.log = Append(@, op)]

\* lines 193-207: Cache.cacher(fn, query_strategy=qs, path=path,
\* **Cache.<name>()), up to the branch
PresetCall ==
    /\ pst.pc \in {"idle", "done", "raised"}
    /\ \E name \in PresetNames, qs \in PresetStrategies, path \in Paths :
          LET s == Normalize(qs, exists(fs, path))
              h == Preset(name) IN
          pst' = [NoPreset EXCEPT !.name = name, !.h = h, !.strategy = s,
                                  !.path = path, !.fs0 = fs,
                                  !.pc = NextPc("normalize", s, h)]
    /\ UNCHANGED <<hooks, fs, inv, prev, obj, disk, wr, fwd>>

\* line 214
PresetMkdirs ==
    /\ pst.pc = "mkdirs"
    /\ pst' = PresetGoes("mkdirs", "mkdirs")
    /\ fs' = safe_make_parent_dirs(fs, pst.path)
    /\ UNCHANGED <<hooks, inv, prev, obj, disk, wr, fwd>>

\* lines 210, 216, 220: fn returns a tabular value
PresetFetch ==
    /\ pst.pc = "fetch"
    /\ \E x \in Tables :
          pst' = [PresetGoes("fetch", "fetch") EXCEPT
                     !.fetched = x,
                     !.data = IF Retains(pst.strategy, pst.h.writer) THEN x ELSE @]
    /\ UNCHANGED <<hooks, fs, inv, prev, obj, disk, wr, fwd>>

\* line 217
PresetPreStep ==
    /\ pst.pc = "pre"
    /\ pst' = [PresetGoes("pre", "pre") EXCEPT !.data = PresetPre(pst.h.pre, pst.data)]
    /\ UNCHANGED <<hooks, fs, inv, prev, obj, disk, wr, fwd>>

\* line 218: the writer raises on a value it cannot write, else writes
PresetWrite ==
    /\ pst.pc = "write"
    /\ \/ /\ PresetWriterRejects(pst.h.writer, pst.data)
          /\ pst' = PresetRaises("AttributeError", "writer")
          /\ fs' = fs
       \/ /\ ~PresetWriterRejects(pst.h.writer, pst.data)
          /\ WriterFails(fs, pst.path)
          /\ pst' = PresetRaises("IOError", "writer")
          /\ fs' = fs
       \/ /\ ~PresetWriterRejects(pst.h.writer, pst.data)
          /\ ~WriterFails(fs, pst.path)
          /\ pst' = [PresetGoes("write", "writer") EXCEPT !.written = pst.data]
          /\ fs' = ApplyWriter(PresetFormat(pst.h.writer), fs, pst.path, pst.data.val)
    /\ UNCHANGED <<hooks, inv, prev, obj, disk, wr, fwd>>

\* lines 222-223
PresetRead ==
    /\ pst.pc = "read"
    /\ LET fmt == PresetFormat(pst.h.reader) IN
       IF ReaderFails(fmt, fs, pst.path)
       THEN pst' = PresetRaises(ReaderError(fmt, fs, pst.path), "reader")
       ELSE LET x == [shape |-> PresetReaderShape(pst.h.reader),
                      val |-> ApplyReader(fmt, fs, pst.path)] IN
            pst' = [PresetGoes("read", "reader") EXCEPT !.data = x, !.readback = x]
    /\ UNCHANGED <<hooks, fs, inv, prev, obj, disk, wr, fwd>>

\* lines 225-227: no preset sets post to None; with data unbound line 226
\* raises before post is entered
PresetReturn ==
    /\ pst.pc = "ret"
    /\ PostRuns(pst.h.post)
    /\ pst' = IF pst.data = NoTable
              THEN [pst EXCEPT !.pc = "raised", !.err = "UnboundLocalError"]
              ELSE IF PresetPostRejects(pst.h.post, pst.data)
                   THEN PresetRaises("AttributeError", "post")
                   ELSE [pst EXCEPT !.pc = "done", !.log = Append(@, "post"),
                                    !.result = PresetPost(pst.h.post, pst.data)]
    /\ UNCHANGED <<hooks, fs, inv, prev, obj, disk, wr, fwd>>

NextPreset ==
    \/ PresetCall
    \/ PresetMkdirs
    \/ PresetFetch
    \/ PresetPreStep
    \/ PresetWrite
    \/ PresetRead
    \/ PresetReturn

SpecPreset == InitPreset /\ [][NextPreset]_vars

TypeOK ==
    /\ hooks \in HookBundles
    /\ fs \in FileSystems
    /\ \A p \in Procs : inv[p].pc \in {"idle", "normalize", "mkdirs", "fetch", "pre",
                                       "write", "read", "ret", "done", "raised"}

\* ------------------------------------------------- observing an invocation
\* how often hook op was invoked by invocation c
Count(c, op) == Cardinality({i \in DOMAIN c.log : c.log[i].op = op})

\* what fn returned to invocation c (0 when fn was not called)
FetchedOf(c) ==
    IF Count(c, "fetch") = 0 THEN 0
    ELSE c.log[CHOOSE i \in DOMAIN c.log : c.log[i].op = "fetch"].arg

\* post(d), or d when post is None
PostOf(post, d) == IF post = "None" THEN d ELSE ApplyPost(post, d)

IsHookEvent(e) == e.op # "exists"

\* what a caller can observe of a returned invocation: the hooks invoked and
\* their arguments, the filesystem, and the value returned or error raised
Outcome(c, f) ==
    [hooks |-> SelectSeq(c.log, IsHookEvent), fs |-> f,
     pc |-> c.pc, result |-> c.result, err |-> c.err]

\* the outcome of the same call made with query_strategy qs instead
OutcomeWith(qs, c) ==
    LET r == cacher(qs, c.path, c.fs0, hooks, FetchedOf(c)) IN Outcome(r.c, r.f)

\* ------------------------------------------------------------------ claims
\* C1: a returned call made with 'lazy' has the outcome (hooks invoked,
\* filesystem, result or error) of the same call made with 'file' when the
\* path existed at the call and with 'create' when it did not; a call made
\* with None has the outcome of the same call made with 'pass_through'.
C1_StrategyNormalization ==
    LET c == inv[1] IN
    Returned(c) =>
        /\ c.query_strategy = "lazy" =>
              Outcome(c, fs) =
                  OutcomeWith(IF exists(c.fs0, c.path) THEN "file" ELSE "create", c)
        /\ c.query_strategy = "None" => Outcome(c, fs) = OutcomeWith("pass_through", c)

\* a 'lazy' call on an existing file has returned what the reader read
C1_Witness ==
    /\ inv[1].pc = "done"
    /\ inv[1].query_strategy = "lazy"
    /\ inv[1].strategy = "file"
    /\ Count(inv[1], "reader") = 1
    /\ Count(inv[1], "fetch") = 0

\* C2 (as claimed): a returned call governed by pass_through has invoked
\* neither the writer nor the reader, has left the filesystem as it was and
\* has returned post(fetch(args)), for every hook bundle.
C2_PassThroughPurity ==
    LET c == inv[1] IN
    (Returned(c) /\ c.strategy = "pass_through") =>
        /\ Count(c, "writer") = 0
        /\ Count(c, "reader") = 0
        /\ fs = c.fs0
        /\ c.pc = "done"
        /\ c.result = PostOf(hooks.post, FetchedOf(c))

\* C3: a returned call governed by 'file' has invoked neither fn nor pre
\* nor the writer, has left the filesystem as it was, and with a reader
\* configured has returned post(reader(path)) (or raised the reader's error).
C3_FileOnlyNoFetch ==
    LET c == inv[1] IN
    (Returned(c) /\ c.strategy = "file") =>
        /\ Count(c, "fetch") = 0
        /\ Count(c, "pre") = 0
        /\ Count(c, "writer") = 0
        /\ Count(c, "mkdirs") = 0
        /\ fs = c.fs0
        /\ hooks.reader # "None" =>
              IF ReaderFails(hooks.reader, c.fs0, c.path)
              THEN c.pc = "raised" /\ c.err = ReaderError(hooks.reader, c.fs0, c.path)
              ELSE /\ c.pc = "done"
                   /\ c.result = PostOf(hooks.post, ApplyReader(hooks.reader, c.fs0, c.path))

\* a call given 'file' has returned the post-processed content of the file
C3_Witness ==
    /\ inv[1].pc = "done"
    /\ inv[1].query_strategy = "file"
    /\ hooks.reader # "None"
    /\ hooks.post = "fn"
    /\ inv[1].result = ApplyPost("fn", fs.files[inv[1].path].val)

\* C4: with a format-symmetric writer and reader, a call given 'file' that
\* follows a returned call given 'create' on the same path returns the
\* result of that 'create' call and does not invoke fn.
C4_CreateThenFile ==
    LET c == inv[1] IN
    (/\ Returned(c)
     /\ c.query_strategy = "file"
     /\ prev.valid /\ prev.query_strategy = "create" /\ prev.err = ""
     /\ prev.path = c.path
     /\ hooks.writer # "None" /\ hooks.reader = hooks.writer) =>
        /\ c.pc = "done"
        /\ c.result = prev.result
        /\ Count(c, "fetch") = 0

\* 'create' has fetched and returned a post-processed value, and the
\* following 'file' call on the same path has returned
C4_Witness ==
    /\ inv[1].pc = "done"
    /\ inv[1].query_strategy = "file"
    /\ prev.valid /\ prev.query_strategy = "create" /\ prev.fetched
    /\ prev.path = inv[1].path
    /\ hooks.writer # "None" /\ hooks.reader = hooks.writer
    /\ hooks.post = "fn" /\ hooks.pre = "fn"
    /\ inv[1].result = prev.result

\* C5: a returned call governed by 'create' with a writer has handed
\* pre(fetch(args)) to the writer, once, for the call's path and no other;
\* the file at path holds that value; with a reader the value passed to
\* post is reader(path); with a format-symmetric reader the result is post
\* of the written value.
C5_CreateWritesPreOfFetch ==
    LET c == inv[1]
        w == ApplyPre(hooks.pre, FetchedOf(c)) IN
    (Returned(c) /\ c.strategy = "create" /\ hooks.writer # "None") =>
        /\ Count(c, "fetch") = 1
        /\ Count(c, "writer") = 1
        /\ \A i \in DOMAIN c.log : c.log[i].op = "writer" => c.log[i].arg = w
        /\ fs.files[c.path] = [fmt |-> hooks.writer, val |-> w]
        /\ \A q \in Paths \ {c.path} : fs.files[q] = c.fs0.files[q]
        /\ hooks.reader # "None" =>
              \A i \in DOMAIN c.log :
                  c.log[i].op = "post" => c.log[i].arg = ApplyReader(hooks.reader, fs, c.path)
        /\ hooks.reader = hooks.writer =>
              c.pc = "done" /\ c.result = PostOf(hooks.post, w)

\* 'create' with pre, writer, symmetric reader and post has replaced a file
\* that held another value
C5_Witness ==
    /\ inv[1].pc = "done"
    /\ inv[1].query_strategy = "create"
    /\ hooks.pre = "fn" /\ hooks.post = "fn"
    /\ hooks.writer # "None" /\ hooks.reader = hooks.writer
    /\ exists(inv[1].fs0, inv[1].path)
    /\ inv[1].fs0.files[inv[1].path] # fs.files[inv[1].path]
    /\ Count(inv[1], "post") = 1

\* C6: with a writer and a reader, a 'lazy' call on an absent path invokes
\* fn once, and a 'lazy' call that follows a 'lazy' call on the same path
\* invokes nothing but the reader and post.
C6_LazyFetchesOnce ==
    LET c == inv[1] IN
    (c.query_strategy = "lazy" /\ hooks.writer # "None" /\ hooks.reader # "None") =>
        /\ (Returned(c) /\ ~exists(c.fs0, c.path)) => Count(c, "fetch") = 1
        /\ (prev.valid /\ prev.query_strategy = "lazy" /\ prev.path = c.path) =>
              \A i \in DOMAIN c.log : c.log[i].op \in {"exists", "reader", "post"}

\* the first 'lazy' call has fetched, the second one on the same path has
\* returned the same result from the file
C6_Witness ==
    /\ inv[1].pc = "done"
    /\ inv[1].query_strategy = "lazy"
    /\ prev.valid /\ prev.query_strategy = "lazy" /\ prev.fetched
    /\ prev.path = inv[1].path
    /\ hooks.writer # "None" /\ hooks.reader # "None"
    /\ Count(inv[1], "reader") = 1
    /\ Count(inv[1], "fetch") = 0
    /\ inv[1].result = prev.result

\* C7: the set of directories changes only in a call governed by neither
\* 'file' nor 'pass_through' and made with a writer; in a call governed by
\* 'create' with a writer the parent directory of path exists when the
\* writer is invoked, the writer does not fail, and the call succeeds
\* unless the reader fails.
C7_DirectoryAutoCreation ==
    LET c == inv[1] IN
    /\ (c.pc # "idle" /\ fs.dirs # c.fs0.dirs) =>
          c.strategy \notin {"", "file", "pass_through"} /\ hooks.writer # "None"
    /\ (c.strategy = "create" /\ hooks.writer # "None") =>
          /\ c.pc \in {"pre", "write"} => dirname(c.path) \in fs.dirs
          /\ Count(c, "writer") = 1 =>
                /\ Count(c, "mkdirs") = 1
                /\ exists(fs, c.path)
                /\ c.pc = "raised" => c.log[Len(c.log)].op = "reader"
          /\ (Returned(c) /\ hooks.reader \in {"None", hooks.writer}) => c.pc = "done"

\* 'create' with a writer has succeeded on a path whose parent directory
\* did not exist at the call
C7_Witness ==
    /\ inv[1].pc = "done"
    /\ inv[1].strategy = "create"
    /\ hooks.writer # "None"
    /\ dirname(inv[1].path) \notin inv[1].fs0.dirs
    /\ dirname(inv[1].path) \in fs.dirs
    /\ exists(fs, inv[1].path)

\* C8 (as claimed): a returned call in which no step retained a value
\* ('file' without reader, 'create' with neither writer nor reader) has
\* not raised and has returned None, for every setting of post.
C8_NoDataIsNotAFault ==
    LET c == inv[1] IN
    (/\ Returned(c)
     /\ hooks.reader = "None"
     /\ c.strategy = "file" \/ (c.strategy = "create" /\ hooks.writer = "None")) =>
        c.pc = "done" /\ c.result = None

\* the position of a hook in the order fetch, directories, pre, writer
RankAsClaimed(op) ==
    CASE op = "exists" -> 0 [] op = "fetch" -> 1 [] op = "mkdirs" -> 2 [] op = "pre" -> 3
      [] op = "writer" -> 4 [] op = "reader" -> 5 [] OTHER -> 6

\* the position of a hook in the order directories, fetch, pre, writer
Rank(op) ==
    CASE op = "exists" -> 0 [] op = "mkdirs" -> 1 [] op = "fetch" -> 2 [] op = "pre" -> 3
      [] op = "writer" -> 4 [] op = "reader" -> 5 [] OTHER -> 6

\* C9 (as claimed): within one invocation the existence check, fetch,
\* parent directories, pre, writer, reader, post happen in this order.
C9_StepOrderAsClaimed ==
    LET c == inv[1] IN
    \A i, j \in DOMAIN c.log : i < j => RankAsClaimed(c.log[i].op) < RankAsClaimed(c.log[j].op)

\* C9 (amended): nothing is fetched, written or read before the strategy is
\* normalized; within one invocation the existence check, parent
\* directories, fetch, pre, writer, reader, post happen in this order; and
\* a call governed by 'create' with a writer that reached the writer has
\* run directories, fetch, pre, writer, each once.
C9_StepOrder ==
    LET c == inv[1] IN
    /\ c.pc = "normalize" => c.strategy = "" /\ c.log = << >> /\ fs = c.fs0
    /\ c.pc \notin {"idle", "normalize"} => c.strategy \in {"pass_through", "create", "file", "other"}
    /\ \A i, j \in DOMAIN c.log : i < j => Rank(c.log[i].op) < Rank(c.log[j].op)
    /\ (c.strategy = "create" /\ hooks.writer # "None" /\ Count(c, "writer") = 1) =>
          \A op \in {"mkdirs", "fetch", "pre"} : Count(c, op) = 1
    /\ (c.pc = "done" /\ Count(c, "post") = 1) => c.log[Len(c.log)].op = "post"

\* a 'lazy' call has run every step: existence check, directories, fetch,
\* pre, writer, reader, post
C9_Witness ==
    /\ inv[1].pc = "done"
    /\ Len(inv[1].log) = 7
    /\ inv[1].log[1].op = "exists"
    /\ inv[1].log[2].op = "mkdirs"
    /\ inv[1].log[3].op = "fetch"
    /\ inv[1].log[7].op = "post"

\* C10 (as claimed): a returned call made with a post hook, in which no hook
\* failed, has applied post exactly once, as its last step, to reader(path)
\* if a reader ran and to the fetch/pre value otherwise.
C10_PostAppliedOnce ==
    LET c == inv[1] IN
    (Returned(c) /\ hooks.post # "None" /\ c.err \notin {"IOError", "ParseError"}) =>
        /\ Count(c, "post") = 1
        /\ c.log[Len(c.log)].op = "post"
        /\ c.log[Len(c.log)].arg =
              IF Count(c, "reader") = 1 THEN ApplyReader(hooks.reader, fs, c.path)
              ELSE IF Count(c, "pre") = 1 THEN ApplyPre(hooks.pre, FetchedOf(c))
              ELSE FetchedOf(c)

\* C17: a returned call has invoked fn exactly once under pass_through and
\* under the create logic, with or without a writer, and never under
\* 'file'; without a writer the create logic writes nothing and keeps
\* nothing of what fn returned; the writer is invoked at most once, only
\* under the create logic ('create', or an unrecognized value, see C19) and
\* only after fn; the reader is invoked at most once.
C17_HookInvocationCounts ==
    LET c == inv[1] IN
    /\ Returned(c) =>
          /\ c.strategy = "file" => Count(c, "fetch") = 0
          /\ c.strategy # "file" => Count(c, "fetch") = 1
          /\ (c.strategy = "create" /\ hooks.writer = "None") =>
                /\ Count(c, "writer") = 0
                /\ fs = c.fs0
                /\ hooks.reader = "None" => c.data = Unbound /\ Count(c, "post") = 0
    /\ Count(c, "fetch") <= 1
    /\ Count(c, "writer") <= 1
    /\ Count(c, "reader") <= 1
    /\ \A i \in DOMAIN c.log :
          c.log[i].op = "writer" =>
              /\ c.strategy \notin {"pass_through", "file"}
              /\ \E j \in 1..(i - 1) : c.log[j].op = "fetch"

\* 'create' without a writer has fetched once, written nothing, and returned
\* what the reader found on disk
C17_Witness ==
    /\ inv[1].pc = "done"
    /\ inv[1].query_strategy = "create"
    /\ hooks.writer = "None"
    /\ hooks.reader # "None"
    /\ Count(inv[1], "fetch") = 1
    /\ Count(inv[1], "reader") = 1
    /\ fs = inv[1].fs0

\* C19: a call made with an unrecognized query_strategy is not rejected: it
\* keeps the value as its strategy, invokes fn, and has the outcome (hooks
\* invoked, filesystem, result or error) of the same call made with 'create'.
C19_UnrecognizedRunsCreate ==
    LET c == inv[1] IN
    (Returned(c) /\ c.query_strategy = "other") =>
        /\ c.strategy = "other"
        /\ Count(c, "fetch") = 1
        /\ Outcome(c, fs) = OutcomeWith("create", c)

\* a call with an unrecognized strategy has fetched, run pre and the writer
C19_Witness ==
    /\ inv[1].pc = "done"
    /\ inv[1].query_strategy = "other"
    /\ hooks.writer # "None"
    /\ Count(inv[1], "pre") = 1
    /\ Count(inv[1], "writer") = 1
    /\ exists(fs, inv[1].path)

\* C18 (as claimed): when fn or pre raises in a call governed by 'create'
\* with a writer, the error reaches the caller, writer, reader and post are
\* not invoked, and the filesystem is exactly as it was at the call.
C18_FailingFetchLeavesNothing ==
    LET c == inv[1] IN
    (/\ c.pc = "raised" /\ c.err \in {"FetchError", "PreError"}
     /\ c.strategy = "create" /\ hooks.writer # "None") =>
        /\ Count(c, "writer") = 0
        /\ Count(c, "reader") = 0
        /\ Count(c, "post") = 0
        /\ fs = c.fs0

\* C18 (amended): when fn or pre raises in a call governed by 'create' with
\* a writer, the error reaches the caller, writer, reader and post are not
\* invoked and no file is created or changed; the parent directory of path,
\* made before fn is called, exists afterwards even if it did not before.
C18_FailingFetchLeavesDirectory ==
    LET c == inv[1] IN
    (/\ c.pc = "raised" /\ c.err \in {"FetchError", "PreError"}
     /\ c.strategy = "create" /\ hooks.writer # "None") =>
        /\ Count(c, "writer") = 0
        /\ Count(c, "reader") = 0
        /\ Count(c, "post") = 0
        /\ c.log[Len(c.log)].op = (IF c.err = "FetchError" THEN "fetch" ELSE "pre")
        /\ fs.files = c.fs0.files
        /\ fs.dirs = c.fs0.dirs \cup {dirname(c.path)}

\* fn has raised in a 'create' call with a writer on a path whose parent
\* directory did not exist at the call
C18_Witness ==
    /\ inv[1].pc = "raised"
    /\ inv[1].err = "FetchError"
    /\ inv[1].query_strategy = "create"
    /\ hooks.writer # "None"
    /\ dirname(inv[1].path) \notin inv[1].fs0.dirs
    /\ dirname(inv[1].path) \in fs.dirs
    /\ ~exists(fs, inv[1].path)

\* C15: with two concurrent 'lazy' invocations, each one decides between
\* 'file' and 'create' once, by whether its path exists when its own check
\* runs, and keeps that decision until it returns, whatever the other
\* invocation does to the path meanwhile.
C15_LazyDecidedOnce ==
    [][\A p \in Procs :
          /\ (inv[p].pc = "normalize" /\ inv'[p].pc # "normalize") =>
                inv'[p].strategy = (IF exists(fs, inv[p].path) THEN "file" ELSE "create")
          /\ inv[p].pc \notin {"idle", "normalize", "done", "raised"} =>
                inv'[p].strategy = inv[p].strategy
          /\ Count(inv'[p], "exists") <= 1]_vars

\* both invocations found the same path absent, both resolved to 'create',
\* and fn and the writer have each run twice
C15_Witness ==
    /\ \A p \in Procs :
          /\ inv[p].pc = "done"
          /\ inv[p].strategy = "create"
          /\ Count(inv[p], "fetch") = 1
          /\ Count(inv[p], "writer") = 1
    /\ inv[1].path = inv[2].path
    /\ ~exists(inv[1].fs0, inv[1].path)
    /\ ~exists(inv[2].fs0, inv[2].path)

\* C11: get_cache_path returns None whenever the cache flag is off, even
\* with an explicit file name; with the flag on it returns a non-empty
\* file_name as given, without consulting the manifest; without a file name
\* it returns the manifest's resolution of key and args, raises the
\* manifest's lookup failure for an unknown key, and returns None when there
\* is no manifest; it changes neither the flag nor the manifest.
C11_PathResolution ==
    LET g == obj.got
        named == g.file_name \notin {"None", ""} IN
    g.valid =>
        /\ ~g.cache0 => g.absent /\ g.err = "" /\ ~g.consulted
        /\ (g.cache0 /\ named) =>
              ~g.absent /\ g.path = g.file_name /\ g.err = "" /\ ~g.consulted
        /\ (g.cache0 /\ ~named /\ g.manifest0 = "loaded") =>
              /\ g.consulted
              /\ g.key \in ManifestKeys =>
                    ~g.absent /\ g.err = "" /\ g.path = manifest_get_path(g.key, g.arg).path
              /\ g.key \notin ManifestKeys => g.err = "LookupFailure"
        /\ (g.cache0 /\ ~named /\ g.manifest0 = "None") =>
              g.absent /\ g.err = "" /\ ~g.consulted
        /\ obj.cache = g.cache0
        /\ obj.manifest = g.manifest0

\* a caching object with a loaded manifest has resolved "cells" for
\* "experiment1" without an explicit file name
C11_Witness ==
    /\ obj.got.valid
    /\ obj.cache
    /\ obj.manifest = "loaded"
    /\ obj.got.file_name = "None"
    /\ obj.got.key = "cells"
    /\ obj.got.path = "experiment1/cells.csv"

\* how often construction ran step e
Ran(e) == Cardinality({i \in DOMAIN obj.log : obj.log[i] = e})

\* C12: when construction with a manifest file name ends, build_manifest
\* has run once if the file was missing at construction and not at all
\* otherwise; for a missing file the steps were: make the parent directory
\* (if the name has one), build, then load; for an existing file only the
\* load ran and nothing was created; without a file name nothing ran,
\* nothing was created and the manifest is None.
C12_ManifestBootstrap ==
    LET missing == obj.file_name \notin obj.disk0.files
        dir == dirname(obj.file_name)
        before == IF dir # "" THEN <<"safe_mkdir", "build_manifest">>
                  ELSE <<"build_manifest">> IN
    /\ Ran("build_manifest") <= 1
    /\ obj.pc \in {"constructed", "raised"} =>
          /\ (obj.file_name # "None" /\ missing) =>
                /\ obj.log = (IF obj.pc = "raised" THEN before ELSE before \o <<"read">>)
                /\ dir \in disk.dirs
          /\ (obj.file_name # "None" /\ ~missing) =>
                /\ obj.log = <<"read">>
                /\ disk = obj.disk0
                /\ obj.manifest = "loaded"
          /\ obj.file_name = "None" =>
                /\ obj.log = << >>
                /\ disk = obj.disk0
                /\ obj.manifest = "None"

\* a subclass object was constructed on a missing manifest in a missing
\* directory: directory made, default manifest built, manifest loaded
C12_Witness ==
    /\ obj.pc = "constructed"
    /\ obj.cls = "Subclass"
    /\ obj.file_name = "cache/manifest.json"
    /\ "cache" \notin obj.disk0.dirs
    /\ obj.log = <<"safe_mkdir", "build_manifest", "read">>
    /\ obj.manifest = "loaded"
    /\ obj.file_name \in disk.files

\* C13: constructing the base Cache with the name of a missing manifest
\* file ends with the builder's error, raised by the single call of
\* build_manifest, with no load attempted and no manifest attribute set;
\* the parent directory made before the call stays and no file is created.
C13_AbstractBuilderFails ==
    (/\ obj.pc \in {"constructed", "raised"}
     /\ obj.cls = "Cache"
     /\ obj.file_name # "None"
     /\ obj.file_name \notin obj.disk0.files) =>
        /\ obj.pc = "raised"
        /\ obj.err = "Exception"
        /\ Ran("build_manifest") = 1
        /\ Ran("read") = 0
        /\ obj.manifest = "unset"
        /\ disk.files = obj.disk0.files
        /\ disk.dirs = obj.disk0.dirs \cup {dirname(obj.file_name)}

\* the base class failed on a missing manifest and left the new directory
C13_Witness ==
    /\ obj.pc = "raised"
    /\ obj.cls = "Cache"
    /\ obj.file_name = "cache/manifest.json"
    /\ "cache" \notin obj.disk0.dirs
    /\ "cache" \in disk.dirs
    /\ obj.err = "Exception"

\* C14 (as claimed): a call of wrap with save_as_json=False and
\* return_dataframe=False never invokes fn and never changes the
\* filesystem, and ends with the configuration error, for cache=True and
\* for cache=False.
C14_ConfigurationErrorFirst ==
    (wr.pc # "none" /\ ~wr.save_as_json /\ ~wr.return_dataframe) =>
        /\ \A i \in DOMAIN wr.log : wr.log[i].op # "fetch"
        /\ fs = wr.fs0
        /\ wr.pc \in {"done", "raised"} => wr.pc = "raised" /\ wr.err = "ValueError"

\* the presets that configure a writer and a reader, and those that do not
CachingPresets == {"cache_csv_json", "cache_csv_dataframe", "cache_json_dataframe",
                   "cache_json"}
NoCachePresets == {"nocache_dataframe", "nocache_json"}

\* the call with a preset's hooks has run the writer and the reader, and
\* what the reader returned has the content of what the writer was given
RoundTrips ==
    /\ pst.written # NoTable
    /\ pst.readback # NoTable
    /\ pst.readback.val = pst.written.val

\* the call has run the create logic to its end: it returned, or a hook raised
PresetCreateEnded == pst.pc \in {"done", "raised"} /\ pst.strategy = "create"

\* C16 (as claimed): with the hooks of any of the six named presets, a
\* 'create' call that fetched a tabular value has written it with the
\* preset's writer and read back a value of the same content with the
\* preset's reader.
C16_PresetRoundTripAllSix ==
    (PresetCreateEnded /\ pst.name \in CachingPresets \cup NoCachePresets) => RoundTrips

\* C20: in every call of Cache.cacher, direct or through cacheable, with or
\* without another call running, no recognized option key is among the
\* keyword arguments fn receives; fn receives the caller's positional
\* arguments and every other keyword argument with its value; fn has been
\* called when the call returns unless the strategy is 'file'; and a call
\* through cacheable that no other call disturbed ends with the result,
\* error, hook invocations and filesystem of the direct call of
\* Cache.cacher with the same arguments.
C20_ArgumentForwarding ==
    \A p \in Procs :
        LET w == fwd[p]
            direct == Cache_cacher(w.args, w.kwargs, w.c.fs0) IN
        w.c.pc # "idle" =>
            /\ w.received.called =>
                  /\ DOMAIN w.received.kwargs \cap RecognizedKeys = {}
                  /\ w.received.args = w.args
                  /\ DOMAIN w.received.kwargs = DOMAIN w.kwargs \ RecognizedKeys
                  /\ \A k \in DOMAIN w.received.kwargs :
                        w.received.kwargs[k] = w.kwargs[k]
            /\ Returned(w.c) => (w.received.called <=> w.c.strategy # "file")
            /\ (w.via = "cacheable" /\ Returned(w.c) /\ w.alone) =>
                  /\ w.c = direct.c
                  /\ w.received = direct.received
                  /\ fs = direct.f

\* a decorated call given all six options, two positional arguments and a
\* criteria keyword has fetched, written and read back, undisturbed
C20_Witness ==
    /\ fwd[1].via = "cacheable"
    /\ fwd[1].alone
    /\ RecognizedKeys \subseteq DOMAIN fwd[1].kwargs
    /\ fwd[1].args = <<"a", "b">>
    /\ fwd[1].received.called
    /\ fwd[1].received.kwargs = [k \in {"criteria"} |-> "a"]
    /\ fwd[1].c.pc = "done"
    /\ fwd[1].c.path = "cache/data.csv"
    /\ fs.files["cache/data.csv"].fmt = "csv"
    /\ fs # fwd[1].c.fs0
====
